---- MODULE Spec2Model ----
(***************************************************************************)
(* Model of the Broker of src/src/broker.js (lines 30-411): dependency     *)
(* resolution (sortSingletons, sortActions, the toposort package they      *)
(* call) and the start/stop lifecycle of services (startService,           *)
(* stopService, startSingletons, startActions).                            *)
(*                                                                         *)
(* Three families of specifications:                                       *)
(*   SortSpec  - the resolver as a pure function of a drawn registry;      *)
(*   Spec, RaceSpec, StartSpec, SeqSpec, OkSpec - the lifecycle, one       *)
(*               atomic action per run of code between two awaits:         *)
(*               overlapping calls, startService calls only, calls made    *)
(*               one at a time, and overlapping stopService calls with     *)
(*               every routine returning;                                  *)
(*   MockSpec  - mockAction on the registries of its tests                 *)
(*               (src/unnamed/part_000).                                   *)
(* The classes Service, Singleton and Action and the packages lodash and   *)
(* toposort are not part of broker.js; the model takes from them what the  *)
(* Broker reads and writes.                                                *)
(***************************************************************************)
EXTENDS Integers, Sequences, FiniteSets, TLC

(***************************************************************************)
(* Bounds: the length of a drawn dependency list and of a drawn root list, *)
(* the number of startService / stopService calls of a run with           *)
(* overlapping calls (Spec, StartSpec), of a run of calls made one after   *)
(* the other (SeqSpec), and of the longer overlapping runs in which the    *)
(* races between three calls are searched (RaceSpec).  MaxOkCalls (the     *)
(* calls of OkSpec) and MaxValue (the numbers of MockSpec) are set where   *)
(* those specifications are defined.                                       *)
(***************************************************************************)
MaxDeps == 2
MaxRoots == 2
MaxCalls == 2
MaxSeqCalls == 4
MaxRaceCalls == 3

\* Component names of the drawn registries.
Names == {"n1", "n2", "n3"}

\* Symbol('service-singleton') / Symbol('service-action'): a node that is no name.
serviceNode == "<service>"

(***************************************************************************)
(* Array and Set helpers (JS arrays are sequences, JS Sets are             *)
(* insertion-ordered sequences without repetition).                        *)
(***************************************************************************)
includes(arr, x) == \E i \in DOMAIN arr : arr[i] = x

setAdd(set, x) == IF includes(set, x) THEN set ELSE Append(set, x)

RECURSIVE newSet(_)
newSet(arr) ==
    IF arr = <<>> THEN <<>>
    ELSE setAdd(newSet(SubSeq(arr, 1, Len(arr) - 1)), arr[Len(arr)])

RECURSIVE reverse(_)
reverse(arr) ==
    IF arr = <<>> THEN <<>> ELSE Append(reverse(Tail(arr)), Head(arr))

\* arr.slice(0, -1)
sliceLast(arr) == IF arr = <<>> THEN <<>> ELSE SubSeq(arr, 1, Len(arr) - 1)

\* lodash difference(a, b): the elements of a not in b, in a's order
RECURSIVE difference(_, _)
difference(a, b) ==
    IF a = <<>> THEN <<>>
    ELSE IF includes(b, Head(a)) THEN difference(Tail(a), b)
         ELSE <<Head(a)>> \o difference(Tail(a), b)

Range(arr) == {arr[i] : i \in DOMAIN arr}

\* arr.map(f) then concatenation of the results: flattens a sequence of sequences
RECURSIVE flatten(_)
flatten(arrs) ==
    IF arrs = <<>> THEN <<>> ELSE Head(arrs) \o flatten(Tail(arrs))

(***************************************************************************)
(* The toposort package (require('toposort'), called as sort(graph)).      *)
(* edges is a sequence of <<from, to>>; the result lists every node with   *)
(* `from` before `to`, or reports a cyclic dependency.                     *)
(***************************************************************************)
uniqueNodes(edges) ==
    newSet(flatten([i \in DOMAIN edges |-> <<edges[i][1], edges[i][2]>>]))

\* makeOutgoingEdges(edges).get(node): the targets of node, in insertion order
RECURSIVE outgoing(_, _)
outgoing(edges, node) ==
    IF edges = <<>> THEN <<>>
    ELSE LET rest == outgoing(SubSeq(edges, 1, Len(edges) - 1), node)
             e == edges[Len(edges)]
         IN IF e[1] = node THEN setAdd(rest, e[2]) ELSE rest

\* visit(node, i, predecessors): st = [cyclic, visited, sorted]
RECURSIVE visit(_, _, _, _)
RECURSIVE visitChildren(_, _, _, _, _)
visit(edges, node, predecessors, st) ==
    IF st.cyclic THEN st
    ELSE IF node \in predecessors THEN [st EXCEPT !.cyclic = TRUE]
    ELSE IF node \in st.visited THEN st
    ELSE LET out == outgoing(edges, node)
             st1 == [st EXCEPT !.visited = @ \cup {node}]
             st2 == IF out = <<>> THEN st1
                    ELSE visitChildren(edges, out, Len(out), predecessors \cup {node}, st1)
         IN IF st2.cyclic THEN st2
            ELSE [st2 EXCEPT !.sorted = <<node>> \o @]

\* do { child = outgoing[--i]; visit(child, ...) } while (i)
visitChildren(edges, out, i, predecessors, st) ==
    IF i = 0 THEN st
    ELSE visitChildren(edges, out, i - 1, predecessors,
                       visit(edges, out[i], predecessors, st))

\* while (i--) { if (!visited[i]) visit(nodes[i], i, new Set()) }
RECURSIVE toposortLoop(_, _, _, _)
toposortLoop(edges, nodes, i, st) ==
    IF i = 0 \/ st.cyclic THEN st
    ELSE toposortLoop(edges, nodes, i - 1,
                      IF nodes[i] \in st.visited THEN st
                      ELSE visit(edges, nodes[i], {}, st))

toposort(edges) ==
    LET nodes == uniqueNodes(edges)
    IN toposortLoop(edges, nodes, Len(nodes),
                    [cyclic |-> FALSE, visited |-> {}, sorted |-> <<>>])

(***************************************************************************)
(* getDependencies(name, dependedBy) of sortSingletons and of sortActions: *)
(* req maps a name to its required names.  st = [chain, all]: chain is the *)
(* name chain of the thrown error (<<>> while nothing is thrown), all is   *)
(* the Set allSingletons / allActions.                                     *)
(***************************************************************************)
RECURSIVE getDependencies(_, _, _, _)
RECURSIVE forEachRequired(_, _, _, _, _)
\* faulty variant: the traversal returns on a repeated name instead of throwing
forEachRequired_return(req, name, dependedBy, i, st) ==
    IF st.chain # <<>> \/ i > Len(req[name]) THEN st
    ELSE IF includes(dependedBy, name) THEN st
         ELSE forEachRequired(req, name, dependedBy, i + 1,
                  getDependencies(req, req[name][i], Append(dependedBy, name), st))

getDependencies(req, name, dependedBy, st) ==
    forEachRequired(req, name, dependedBy, 1,
                    [st EXCEPT !.all = setAdd(@, name)])

forEachRequired(req, name, dependedBy, i, st) ==
    IF st.chain # <<>> \/ i > Len(req[name]) THEN st
    ELSE IF includes(dependedBy, name)
         THEN [st EXCEPT !.chain = dependedBy \o <<name, req[name][i]>>]
         ELSE forEachRequired(req, name, dependedBy, i + 1,
                  getDependencies(req, req[name][i], Append(dependedBy, name), st))

\* requiredSingletons.forEach(name => getDependencies(name))
RECURSIVE forEachRoot(_, _, _, _)
forEachRoot(req, roots, i, st) ==
    IF st.chain # <<>> \/ i > Len(roots) THEN st
    ELSE forEachRoot(req, roots, i + 1, getDependencies(req, roots[i], <<>>, st))

\* allSingletons.forEach(name => required(name).forEach(n => graph.push([name, n])))
dependencyEdges(req, all) ==
    flatten([i \in DOMAIN all |->
                [j \in DOMAIN req[all[i]] |-> <<all[i], req[all[i]][j]>>]])

rootEdges(roots) == [i \in DOMAIN roots |-> <<serviceNode, roots[i]>>]

\* faulty variant: the sort's output is not reversed before the root is dropped
sortReverseSlice_noReverse(graph) ==
    LET t == toposort(graph)
    IN IF t.cyclic
       THEN [status |-> "sort-cyclic", order |-> <<>>, chain |-> <<>>, who |-> <<>>]
       ELSE [status |-> "ok", order |-> sliceLast(t.sorted),
             chain |-> <<>>, who |-> <<>>]

\* sort(graph).reverse().slice(0, -1)
sortReverseSlice(graph) ==
    LET t == toposort(graph)
    IN IF t.cyclic
       THEN [status |-> "sort-cyclic", order |-> <<>>, chain |-> <<>>, who |-> <<>>]
       ELSE [status |-> "ok", order |-> sliceLast(reverse(t.sorted)),
             chain |-> <<>>, who |-> <<>>]

sortSingletons(req, requiredSingletons) ==
    LET st == forEachRoot(req, requiredSingletons, 1,
                          [chain |-> <<>>, all |-> newSet(requiredSingletons)])
    IN IF st.chain # <<>>
       THEN [status |-> "cycle", order |-> <<>>, chain |-> st.chain, who |-> <<>>]
       ELSE sortReverseSlice(rootEdges(requiredSingletons) \o dependencyEdges(req, st.all))

\* the first action of allActions that requires a singleton not in `singletons`
RECURSIVE firstNotIncluded(_, _, _, _)
\* faulty variant: only the first action of allActions is examined
firstNotIncluded_firstOnly(asing, all, i, singletons) ==
    IF all # <<>> /\ difference(asing[all[1]], singletons) # <<>> THEN 1 ELSE 0

firstNotIncluded(asing, all, i, singletons) ==
    IF i > Len(all) THEN 0
    ELSE IF difference(asing[all[i]], singletons) # <<>> THEN i
         ELSE firstNotIncluded(asing, all, i + 1, singletons)

sortActions(req, asing, requiredActions, singletons) ==
    LET st == forEachRoot(req, requiredActions, 1,
                          [chain |-> <<>>, all |-> newSet(requiredActions)])
        bad == firstNotIncluded(asing, st.all, 1, singletons)
    IN IF st.chain # <<>>
       THEN [status |-> "cycle", order |-> <<>>, chain |-> st.chain, who |-> <<>>]
       ELSE IF bad # 0
       THEN [status |-> "not-included", order |-> <<>>,
             chain |-> difference(asing[st.all[bad]], singletons),
             who |-> <<st.all[bad]>>]
       ELSE sortReverseSlice(rootEdges(requiredActions) \o dependencyEdges(req, st.all))

(***************************************************************************)
(* State.                                                                  *)
(*   input, output : the resolver run on a drawn registry (SortSpec)       *)
(*   registry      : the definitions the Broker was constructed with       *)
(*   singletons    : per singleton, its started flag and instance          *)
(*   actions       : per action, its initializedFn                         *)
(*   services      : per service, isRunning and dependencies               *)
(*   calls         : the startService / stopService calls, each with the   *)
(*                   await it is suspended at and its local variables      *)
(*   hist          : how often each user routine was invoked               *)
(***************************************************************************)
VARIABLES input, output, registry, singletons, actions, services, calls, hist

vars == <<input, output, registry, singletons, actions, services, calls, hist>>

sortVars == <<input, output>>
brokerVars == <<registry, singletons, actions, services, calls, hist>>

\* a declared dependency list names each dependency once
Lists(S, n) == {q \in UNION {[1..k -> S] : k \in 0..n} :
                    \A i, j \in DOMAIN q : q[i] = q[j] => i = j}

\* the singletons an action may require, and the owning service's resolved list
ActionSingletons ==
    { [n \in Names |-> <<>>],
      [n \in Names |-> IF n = "n2" THEN <<"x1">> ELSE <<>>] }

\* Broker({}): no definitions
EmptyRegistry == [sreq |-> <<>>, areq |-> <<>>, asing |-> <<>>, services |-> <<>>]

NoInput == [req |-> [n \in Names |-> <<>>], roots |-> <<>>,
            asing |-> [n \in Names |-> <<>>], singletons |-> <<>>]
NoOutput == [by |-> "none", status |-> "none", order |-> <<>>, chain |-> <<>>,
             who |-> <<>>]

SortInit ==
    /\ input \in [req : [Names -> Lists(Names, MaxDeps)],
                  roots : Lists(Names, MaxRoots),
                  asing : ActionSingletons,
                  singletons : {<<>>, <<"x1">>}]
    /\ output = NoOutput
    /\ registry = EmptyRegistry
    /\ singletons = <<>>
    /\ actions = <<>>
    /\ services = <<>>
    /\ calls = <<>>
    /\ hist = <<>>

\* broker.sortSingletons(roots) on a registry whose singletons require input.req
SortSingletonsCall ==
    /\ output.by = "none"
    /\ output' = [by |-> "sortSingletons"] @@ sortSingletons(input.req, input.roots)
    /\ UNCHANGED <<input, brokerVars>>

\* broker.sortActions(roots, singletons) on a registry whose actions require input.req
SortActionsCall ==
    /\ output.by = "none"
    /\ output' = [by |-> "sortActions"] @@
                     sortActions(input.req, input.asing, input.roots, input.singletons)
    /\ UNCHANGED <<input, brokerVars>>

SortNext == SortSingletonsCall \/ SortActionsCall

SortSpec == SortInit /\ [][SortNext]_vars

(***************************************************************************)
(* Graph vocabulary of the resolver claims.                                *)
(***************************************************************************)
RECURSIVE closure(_, _)
closure(req, S) ==
    LET T == S \cup UNION {Range(req[n]) : n \in S}
    IN IF T = S THEN S ELSE closure(req, T)

\* the roots and everything they transitively require
Reach(req, roots) == closure(req, Range(roots))

\* everything n transitively requires
TransDeps(req, n) == closure(req, Range(req[n]))

CycleReachable(req, roots) == \E n \in Reach(req, roots) : n \in TransDeps(req, n)

Pos(arr, x) == CHOOSE i \in DOMAIN arr : arr[i] = x

NoRepetition(arr) == \A i, j \in DOMAIN arr : arr[i] = arr[j] => i = j

\* sortActions' pre-check passes: every reachable action's singletons are included
AllIncluded ==
    \A a \in Reach(input.req, input.roots) :
        Range(input.asing[a]) \subseteq Range(input.singletons)

Resolved == output.by # "none"

\* C1: on a graph with no cycle reachable from the roots, sortSingletons and
\* sortActions (its singleton pre-check passing) return exactly the roots and
\* their transitive dependencies, each once, without the synthetic root, every
\* name after all the names it transitively requires.
C1_ResolutionOrder ==
    ( /\ Resolved
      /\ ~CycleReachable(input.req, input.roots)
      /\ (output.by = "sortActions" => AllIncluded) )
    => /\ output.status = "ok"
       /\ Range(output.order) = Reach(input.req, input.roots)
       /\ NoRepetition(output.order)
       /\ serviceNode \notin Range(output.order)
       /\ \A n \in Range(output.order) : \A d \in TransDeps(input.req, n) :
              Pos(output.order, d) < Pos(output.order, n)

\* two roots, one of them without dependencies, and a dependency that is no root
C1_Witness ==
    /\ output.by = "sortSingletons"
    /\ output.status = "ok"
    /\ Len(output.order) = 3
    /\ Len(input.roots) = 2
    /\ \E i \in DOMAIN input.roots : input.req[input.roots[i]] = <<>>
    /\ \E n \in Range(output.order) : n \notin Range(input.roots)

\* C2: when a cycle (a self-loop included) is reachable from the roots, the
\* resolution ends with the circular-dependency error of the depth-first
\* traversal; the topological sort never meets a cyclic graph.
C2_CycleDetected ==
    /\ output.status # "sort-cyclic"
    /\ (Resolved /\ CycleReachable(input.req, input.roots))
          => (output.status = "cycle" /\ output.chain # <<>>)
    /\ output.status = "cycle" => CycleReachable(input.req, input.roots)

\* a self-loop below a root, and a cycle through all three names
C2_Witness ==
    /\ output.by = "sortActions"
    /\ output.status = "cycle"
    /\ \/ \E n \in Names : input.req[n] = <<n>> /\ n \notin Range(input.roots)
       \/ input.req = [n \in Names |-> IF n = "n1" THEN <<"n2">>
                                       ELSE IF n = "n2" THEN <<"n3">> ELSE <<"n1">>]

\* the chain ends at the first repetition of a name of the active chain
ExactCycleChain(req, chain) ==
    /\ Len(chain) >= 2
    /\ \A i \in 1..(Len(chain) - 1) : includes(req[chain[i]], chain[i + 1])
    /\ NoRepetition(SubSeq(chain, 1, Len(chain) - 1))
    /\ includes(SubSeq(chain, 1, Len(chain) - 1), chain[Len(chain)])

\* C3: the chain carried by a cycle error is exactly the cycle chain: edges
\* between consecutive names, ending at the first repeated name.
C3_ExactChain ==
    output.status = "cycle" => ExactCycleChain(input.req, output.chain)

(***************************************************************************)
(* The registries the lifecycle is run on.  Services A and B share the     *)
(* singleton s1 and the action a1; A has a stop handler, needs s2 (which   *)
(* requires s1) and has a local action a1, registered as A#a1, that        *)
(* requires the action a1.  Service C cannot be resolved: it needs the     *)
(* singleton s3 that requires itself, or the actions a3 and a4 that        *)
(* require each other, or the action a5 whose singleton s2 is not among    *)
(* C's singletons.                                                         *)
(***************************************************************************)
SingletonNames == {"s1", "s2", "s3"}
ActionNames == {"a1", "A#a1", "a3", "a4", "a5"}
ServiceNames == {"A", "B", "C"}

\* `${name}#${actionName}`, and name.includes('#') ? name.split('#')[1] : name
LocalNames == { [service |-> "A", local |-> "a1", full |-> "A#a1"] }

localName(service, local) ==
    (CHOOSE r \in LocalNames : r.service = service /\ r.local = local).full

realName(name) ==
    IF \E r \in LocalNames : r.full = name
    THEN (CHOOSE r \in LocalNames : r.full = name).local
    ELSE name

ServiceC(variant) ==
    CASE variant = 1 -> [singletons |-> <<"s3">>, actions |-> <<>>,
                         localActions |-> <<>>, stop |-> FALSE]
      [] variant = 2 -> [singletons |-> <<"s1">>, actions |-> <<"a3">>,
                         localActions |-> <<>>, stop |-> FALSE]
      [] variant = 3 -> [singletons |-> <<"s1">>, actions |-> <<"a5">>,
                         localActions |-> <<>>, stop |-> FALSE]

Registry(variant) ==
    [ sreq |-> ("s1" :> <<>>) @@ ("s2" :> <<"s1">>) @@ ("s3" :> <<"s3">>),
      areq |-> ("a1" :> <<>>) @@ ("A#a1" :> <<"a1">>) @@
               ("a3" :> <<"a4">>) @@ ("a4" :> <<"a3">>) @@ ("a5" :> <<>>),
      asing |-> ("a1" :> <<"s1">>) @@ ("A#a1" :> <<"s2">>) @@
                ("a3" :> <<>>) @@ ("a4" :> <<>>) @@ ("a5" :> <<"s2">>),
      services |->
          ("A" :> [singletons |-> <<"s2">>, actions |-> <<"a1">>,
                   localActions |-> <<"a1">>, stop |-> TRUE]) @@
          ("B" :> [singletons |-> <<"s1">>, actions |-> <<"a1">>,
                   localActions |-> <<>>, stop |-> FALSE]) @@
          ("C" :> ServiceC(variant)) ]

Registries == {Registry(variant) : variant \in 1..3}

(***************************************************************************)
(* Values.  An instance is the number of the start-routine run that        *)
(* returned it (0: undefined).  A composed value records the compose run   *)
(* that returned it and the singleton instances it closed over.            *)
(***************************************************************************)
Undefined == [type |-> "undefined", of |-> "", gen |-> 0, singletons |-> <<>>]

NoBag == [singletons |-> <<>>, actions |-> <<>>, localActions |-> <<>>]

IdleCall ==
    [ kind |-> "none", name |-> "", pc |-> "idle", names |-> <<>>, idx |-> 0,
      local |-> FALSE, gen |-> 0, bag |-> NoBag, result |-> <<>>,
      singletons |-> <<>>, actions |-> <<>>, error |-> "", noop |-> FALSE ]

NoCall == [kind |-> "none", name |-> "", outcome |-> "none", error |-> "", noop |-> FALSE]

NewHist ==
    [ starts |-> [s \in SingletonNames |-> 0],
      stops |-> [s \in SingletonNames |-> 0],
      composes |-> [a \in ActionNames |-> 0],
      startHandlers |-> [n \in ServiceNames |-> 0],
      stopHandlers |-> [n \in ServiceNames |-> 0],
      transitions |-> [n \in ServiceNames |-> 0],
      last |-> NoCall ]

\* new Singleton(..), new Action(..), new Service(..): the runtime fields the
\* Broker reads and writes, as they are before any start
NewSingleton == [started |-> FALSE, instance |-> 0]

NewAction == [initializedFn |-> Undefined]

NewService == [isRunning |-> FALSE,
               dependencies |-> [singletons |-> <<>>, actions |-> <<>>]]

\* new Broker(registry): nothing started, nothing composed, no service running
BrokerInit(callIds) ==
    /\ input = NoInput
    /\ output = NoOutput
    /\ registry \in Registries
    /\ singletons = [s \in SingletonNames |-> NewSingleton]
    /\ actions = [a \in ActionNames |-> NewAction]
    /\ services = [n \in ServiceNames |-> NewService]
    /\ calls = [c \in callIds |-> IdleCall]
    /\ hist = NewHist

\* the ids of the calls of a run
Calls == 1..MaxCalls
SeqCalls == 1..MaxSeqCalls
RaceCalls == 1..MaxRaceCalls

Init == BrokerInit(Calls)

(***************************************************************************)
(* A step of a call runs on st = [singletons, actions, services, hist,     *)
(* call]: the shared state and the call's own record.                      *)
(***************************************************************************)
Now(c) ==
    [singletons |-> singletons, actions |-> actions, services |-> services,
     hist |-> hist, call |-> calls[c]]

Becomes(c, st) ==
    /\ singletons' = st.singletons
    /\ actions' = st.actions
    /\ services' = st.services
    /\ hist' = st.hist
    /\ calls' = [calls EXCEPT ![c] = st.call]
    /\ UNCHANGED <<input, output, registry>>

\* the promise of the call settles; its local variables are gone, and hist.last
\* keeps how the most recently settled call ended
settle(st, outcome, error, noop) ==
    [st EXCEPT !.call = [IdleCall EXCEPT !.pc = "settled"],
               !.hist.last = [kind |-> st.call.kind, name |-> st.call.name,
                              outcome |-> outcome, error |-> error, noop |-> noop]]

resolve(st) == settle(st, "resolved", "", FALSE)

reject(st, error) == settle(st, "rejected", error, FALSE)

isServiceRunning(st, name) == st.services[name].isRunning

getRunningServices(st) == {n \in ServiceNames : isServiceRunning(st, n)}

\* lodash pick(object, keys)
pick(object, keys) == [k \in Range(keys) \cap DOMAIN object |-> object[k]]

Min(S) == CHOOSE k \in S : \A m \in S : k <= m

\* faulty variant: the started flag is not consulted
firstNotStarted_ignoreFlag(sg, names, i) == i

\* the next name of the loop whose singleton is not started (Len + 1: none)
firstNotStarted(sg, names, i) ==
    LET S == {k \in i..Len(names) : ~sg[names[k]].started}
    IN IF S = {} THEN Len(names) + 1 ELSE Min(S)

\* startSingletons(names) from its i-th name up to its next await or its return
startSingletonsLoop(st, i) ==
    LET names == st.call.names
        j == firstNotStarted(st.singletons, names, i)
        passed == {names[k] : k \in i..(j - 1)}
        result == [n \in DOMAIN st.call.result \cup passed |->
                      IF n \in passed THEN st.singletons[n].instance
                      ELSE st.call.result[n]]
    IN IF j > Len(names)
       THEN [st EXCEPT !.call.pc = "startSingletons", !.call.idx = j,
                       !.call.result = result]
       ELSE LET name == names[j]
            IN [st EXCEPT !.singletons[name].started = TRUE,
                          !.hist.starts[name] = @ + 1,
                          !.call.pc = "singleton.start",
                          !.call.idx = j,
                          !.call.result = result,
                          !.call.gen = st.hist.starts[name] + 1,
                          !.call.bag = [NoBag EXCEPT !.singletons =
                              [d \in Range(registry.sreq[name]) |->
                                  st.singletons[d].instance]]]

\* the next name of the loop whose action has a falsy initializedFn
firstNotInitialized(ac, names, i) ==
    LET S == {k \in i..Len(names) : ac[names[k]].initializedFn.type = "undefined"}
    IN IF S = {} THEN Len(names) + 1 ELSE Min(S)

\* set(result, realName, action.initializedFn) for the names i .. j-1
RECURSIVE setResults(_, _, _, _, _)
setResults(ac, names, i, j, result) ==
    IF i >= j THEN result
    ELSE setResults(ac, names, i + 1, j,
                    (realName(names[i]) :> ac[names[i]].initializedFn) @@ result)

\* startActions(names) from its i-th name up to its next await or its return
startActionsLoop(st, i) ==
    LET names == st.call.names
        j == firstNotInitialized(st.actions, names, i)
        result == setResults(st.actions, names, i, j, st.call.result)
    IN IF j > Len(names)
       THEN [st EXCEPT !.call.pc = IF st.call.local THEN "startLocalActions"
                                   ELSE "startActions",
                       !.call.idx = j,
                       !.call.result = result]
       ELSE LET name == names[j]
            IN [st EXCEPT !.hist.composes[name] = @ + 1,
                          !.call.pc = "action.fn",
                          !.call.idx = j,
                          !.call.result = result,
                          !.call.gen = st.hist.composes[name] + 1,
                          !.call.bag = [NoBag EXCEPT
                              !.actions = [a \in Range(registry.areq[name]) |->
                                              st.actions[a].initializedFn],
                              !.singletons = [s \in Range(registry.asing[name]) |->
                                              st.singletons[s].instance]]]

\* faulty variant: startSingletons is entered before the actions are sorted
resolutionFailed_afterStart(st, error) ==
    IF error = "singleton-cycle" THEN reject(st, error)
    ELSE reject(startSingletonsLoop(
                    [st EXCEPT !.call.names =
                         st.services[st.call.name].dependencies.singletons], 1),
                error)

\* sortSingletons or sortActions threw: startService rejects
resolutionFailed(st, error) == reject(st, error)

\* faulty variant: the running flag does not end the call
alreadyRunning_ignored(st, name) == FALSE

\* if (this.isServiceRunning(name)) return;
alreadyRunning(st, name) == isServiceRunning(st, name)

\* startService(name) up to its first await
startServiceSync(st0, name) ==
    LET st == [st0 EXCEPT !.call.kind = "start", !.call.name = name]
        service == registry.services[name]
        localActionsNames ==
            [i \in DOMAIN service.localActions |-> localName(name, service.localActions[i])]
        ss == sortSingletons(registry.sreq, service.singletons)
        sa == sortActions(registry.areq, registry.asing,
                          service.actions \o localActionsNames, ss.order)
        st1 == [st EXCEPT !.services[name].isRunning = TRUE,
                          !.hist.transitions[name] =
                              IF st.services[name].isRunning THEN @ ELSE @ + 1]
        st2 == [st1 EXCEPT !.services[name].dependencies.singletons = ss.order]
        st3 == [st2 EXCEPT !.services[name].dependencies.actions = sa.order,
                           !.call.names = ss.order]
    IN IF alreadyRunning(st, name) THEN settle(st, "resolved", "", TRUE)
       ELSE IF ss.status # "ok" THEN resolutionFailed(st1, "singleton-cycle")
       ELSE IF sa.status = "cycle" THEN resolutionFailed(st2, "action-cycle")
       ELSE IF sa.status # "ok" THEN resolutionFailed(st2, "not-included")
       ELSE startSingletonsLoop(st3, 1)

\* faulty variant: the singletons are torn down dependents first
singletonsToStop_reversed(st, name) ==
    LET runningServices == getRunningServices(st) \ {name}
        startedSingletons ==
            UNION {Range(st.services[n].dependencies.singletons) : n \in runningServices}
        own == st.services[name].dependencies.singletons
    IN reverse(SelectSeq(own, LAMBDA s : s \notin startedSingletons))

\* faulty variant: every singleton of the service is stopped
singletonsToStop_all(st, name) == st.services[name].dependencies.singletons

\* the service's singletons that no other running service has in its list
singletonsToStop(st, name) ==
    LET runningServices == getRunningServices(st) \ {name}
        startedSingletons ==
            UNION {Range(st.services[n].dependencies.singletons) : n \in runningServices}
        own == st.services[name].dependencies.singletons
    IN SelectSeq(own, LAMBDA s : s \notin startedSingletons)

\* the loop over singletonsToStop from its i-th name up to its next await or the return
stopSingletonsLoop(st, i) ==
    IF i > Len(st.call.names)
    THEN resolve([st EXCEPT !.services[st.call.name].isRunning = FALSE])
    ELSE [st EXCEPT !.hist.stops[st.call.names[i]] = @ + 1,
                    !.call.pc = "singleton.stop",
                    !.call.idx = i]

\* stopService(name) after the stop handler
stopSingletons(st) ==
    stopSingletonsLoop([st EXCEPT !.call.names = singletonsToStop(st, st.call.name)], 1)

\* faulty variant: the running flag does not end the call
notRunning_ignored(st, name) == FALSE

\* if (!this.isServiceRunning(name)) return;
notRunning(st, name) == ~isServiceRunning(st, name)

\* stopService(name) up to its first await
stopServiceSync(st0, name) ==
    LET st == [st0 EXCEPT !.call.kind = "stop", !.call.name = name]
    IN IF notRunning(st, name) THEN settle(st, "resolved", "", TRUE)
       ELSE IF registry.services[name].stop
       THEN [st EXCEPT !.hist.stopHandlers[name] = @ + 1, !.call.pc = "stopHandler"]
       ELSE stopSingletons(st)

(***************************************************************************)
(* Actions: a call is issued, or a suspended call resumes because the      *)
(* promise it awaits has settled.                                          *)
(***************************************************************************)
CallIds == DOMAIN calls

\* calls are issued in the order of their ids
Issuable(c) ==
    /\ calls[c].pc = "idle"
    /\ \A d \in CallIds : d < c => calls[d].pc # "idle"

Settled(c) == calls[c].pc = "settled"

InFlight(c) == calls[c].pc \notin {"idle", "settled"}

\* broker.startService(name)
StartService(c, name) ==
    /\ Issuable(c)
    /\ Becomes(c, startServiceSync(Now(c), name))

\* broker.stopService(name)
StopService(c, name) ==
    /\ Issuable(c)
    /\ Becomes(c, stopServiceSync(Now(c), name))

\* faulty variant: the singletons of the call's service are rolled back
routineFailed_rollback(st, error) ==
    reject([st EXCEPT !.singletons =
                [s \in SingletonNames |->
                    IF s \in Range(st.services[st.call.name].dependencies.singletons)
                    THEN NewSingleton ELSE st.singletons[s]]],
           error)

\* an awaited start or compose routine failed, or what fn returned is no
\* function: the error leaves startSingletons / startActions and startService
routineFailed(st, error) == reject(st, error)

\* singleton.instance = await singleton.start({singletons}): the routine returned
SingletonStartReturned(c) ==
    /\ calls[c].pc = "singleton.start"
    /\ LET st == Now(c)
           name == st.call.names[st.call.idx]
           st1 == [st EXCEPT !.singletons[name].instance = st.call.gen]
           st2 == [st1 EXCEPT !.call.result =
                       (name :> st1.singletons[name].instance) @@ @]
       IN Becomes(c, startSingletonsLoop(st2, st.call.idx + 1))

\* ... the routine threw or its promise was rejected
SingletonStartThrew(c) ==
    /\ calls[c].pc = "singleton.start"
    /\ Becomes(c, routineFailed(Now(c), "singleton-start"))

\* singletons = await this.startSingletons(...); then startActions runs to its first await
StartSingletonsReturned(c) ==
    /\ calls[c].pc = "startSingletons"
    /\ LET st == Now(c)
           st1 == [st EXCEPT !.call.singletons = st.call.result,
                             !.call.result = <<>>,
                             !.call.local = FALSE,
                             !.call.names =
                                 st.services[st.call.name].dependencies.actions]
       IN Becomes(c, startActionsLoop(st1, 1))

\* what fn may return
ReturnTypes == {"function", "other", "undefined"}

\* action.initializedFn = await action.fn({actions, singletons}): fn returned a
\* function (type "function"), something else that is truthy (type "other"),
\* or a falsy value (type "undefined")
ActionFnReturned(c, type) ==
    /\ calls[c].pc = "action.fn"
    /\ LET st == Now(c)
           name == st.call.names[st.call.idx]
           value == IF type = "undefined" THEN Undefined
                    ELSE [type |-> type, of |-> name, gen |-> st.call.gen,
                          singletons |-> st.call.bag.singletons]
           st1 == [st EXCEPT !.actions[name].initializedFn = value]
           st2 == [st1 EXCEPT !.call.result =
                       (realName(name) :> st1.actions[name].initializedFn) @@ @]
       IN IF type # "function"
          THEN Becomes(c, routineFailed(st1, "not-function"))
          ELSE Becomes(c, startActionsLoop(st2, st.call.idx + 1))

\* ... fn threw or its promise was rejected
ActionFnThrew(c) ==
    /\ calls[c].pc = "action.fn"
    /\ Becomes(c, routineFailed(Now(c), "action-fn"))

\* actions = await this.startActions(...); then startActions(localActionsNames)
StartActionsReturned(c) ==
    /\ calls[c].pc = "startActions"
    /\ LET st == Now(c)
           service == registry.services[st.call.name]
           st1 == [st EXCEPT !.call.actions = st.call.result,
                             !.call.result = <<>>,
                             !.call.local = TRUE,
                             !.call.names =
                                 [i \in DOMAIN service.localActions |->
                                     localName(st.call.name, service.localActions[i])]]
       IN Becomes(c, startActionsLoop(st1, 1))

\* localActions = await this.startActions(localActionsNames); then the start handler
StartLocalActionsReturned(c) ==
    /\ calls[c].pc = "startLocalActions"
    /\ LET st == Now(c)
           service == registry.services[st.call.name]
       IN Becomes(c, [st EXCEPT
              !.hist.startHandlers[st.call.name] = @ + 1,
              !.call.pc = "startHandler",
              !.call.bag = [singletons |-> pick(st.call.singletons, service.singletons),
                            actions |-> pick(st.call.actions, service.actions),
                            localActions |-> st.call.result]])

\* await service.startHandler(...): the handler returned
StartHandlerReturned(c) ==
    /\ calls[c].pc = "startHandler"
    /\ Becomes(c, resolve(Now(c)))

StartHandlerThrew(c) ==
    /\ calls[c].pc = "startHandler"
    /\ Becomes(c, reject(Now(c), "start-handler"))

\* await service.stopHandler(): the handler returned
StopHandlerReturned(c) ==
    /\ calls[c].pc = "stopHandler"
    /\ Becomes(c, stopSingletons(Now(c)))

StopHandlerThrew(c) ==
    /\ calls[c].pc = "stopHandler"
    /\ Becomes(c, reject(Now(c), "stop-handler"))

\* await this.singletons[singleton].stop(): returned; started = false
SingletonStopReturned(c) ==
    /\ calls[c].pc = "singleton.stop"
    /\ LET st == Now(c)
           name == st.call.names[st.call.idx]
       IN Becomes(c, stopSingletonsLoop([st EXCEPT !.singletons[name].started = FALSE],
                                        st.call.idx + 1))

SingletonStopThrew(c) ==
    /\ calls[c].pc = "singleton.stop"
    /\ Becomes(c, reject(Now(c), "singleton-stop"))

\* a call among ids is made, or one of them resumes
Steps(ids) ==
    \/ \E c \in ids, name \in ServiceNames : StartService(c, name)
    \/ \E c \in ids, name \in ServiceNames : StopService(c, name)
    \/ \E c \in ids : SingletonStartReturned(c)
    \/ \E c \in ids : SingletonStartThrew(c)
    \/ \E c \in ids : StartSingletonsReturned(c)
    \/ \E c \in ids, type \in ReturnTypes : ActionFnReturned(c, type)
    \/ \E c \in ids : ActionFnThrew(c)
    \/ \E c \in ids : StartActionsReturned(c)
    \/ \E c \in ids : StartLocalActionsReturned(c)
    \/ \E c \in ids : StartHandlerReturned(c)
    \/ \E c \in ids : StartHandlerThrew(c)
    \/ \E c \in ids : StopHandlerReturned(c)
    \/ \E c \in ids : StopHandlerThrew(c)
    \/ \E c \in ids : SingletonStopReturned(c)
    \/ \E c \in ids : SingletonStopThrew(c)

Next == Steps(Calls)

\* any interleaving of startService and stopService calls
Spec == Init /\ [][Next]_vars

RaceNext == Steps(RaceCalls)

\* the same, with one more call
RaceSpec == BrokerInit(RaceCalls) /\ [][RaceNext]_vars

\* concurrent startService calls only, no stopService
StartSteps(ids) ==
    \/ \E c \in ids, name \in ServiceNames : StartService(c, name)
    \/ \E c \in ids : SingletonStartReturned(c)
    \/ \E c \in ids : SingletonStartThrew(c)
    \/ \E c \in ids : StartSingletonsReturned(c)
    \/ \E c \in ids, type \in ReturnTypes : ActionFnReturned(c, type)
    \/ \E c \in ids : ActionFnThrew(c)
    \/ \E c \in ids : StartActionsReturned(c)
    \/ \E c \in ids : StartLocalActionsReturned(c)
    \/ \E c \in ids : StartHandlerReturned(c)
    \/ \E c \in ids : StartHandlerThrew(c)

StartNext == StartSteps(Calls)

StartSpec == Init /\ [][StartNext]_vars

Quiescent == \A c \in CallIds : ~InFlight(c)

\* the services whose resolution succeeds
Resolvable == {"A", "B"}

SeqStartService(c, name) == Quiescent /\ StartService(c, name)

SeqStopService(c, name) == Quiescent /\ StopService(c, name)

\* calls made one after the other, every user routine succeeding
SeqNext ==
    \/ \E c \in SeqCalls, name \in Resolvable : SeqStartService(c, name)
    \/ \E c \in SeqCalls, name \in Resolvable : SeqStopService(c, name)
    \/ \E c \in SeqCalls : SingletonStartReturned(c)
    \/ \E c \in SeqCalls : StartSingletonsReturned(c)
    \/ \E c \in SeqCalls : ActionFnReturned(c, "function")
    \/ \E c \in SeqCalls : StartActionsReturned(c)
    \/ \E c \in SeqCalls : StartLocalActionsReturned(c)
    \/ \E c \in SeqCalls : StartHandlerReturned(c)
    \/ \E c \in SeqCalls : StopHandlerReturned(c)
    \/ \E c \in SeqCalls : SingletonStopReturned(c)

SeqSpec == BrokerInit(SeqCalls) /\ [][SeqNext]_vars

(***************************************************************************)
(* Vocabulary of the lifecycle claims.                                     *)
(***************************************************************************)
\* call c settles in this step
Settles(c) == ~Settled(c) /\ Settled(c)'

ResolutionErrors == {"singleton-cycle", "action-cycle", "not-included"}

\* the resolved singleton list of a service
Resolved_singletons(name) == Range(services[name].dependencies.singletons)

\* another running service than `name` lists singleton s
NeededByOther(name, s) ==
    \E n \in ServiceNames \ {name} :
        services[n].isRunning /\ s \in Resolved_singletons(n)

\* C4: a startService call that fails in resolution invokes no start routine,
\* no compose routine and no start handler, and leaves every singleton's
\* started flag and instance and every action's composed function unchanged.
C4_FailedResolutionTouchesNothing ==
    [][ \A c \in CallIds :
          ( /\ Settles(c)
            /\ hist'.last.kind = "start"
            /\ hist'.last.error \in ResolutionErrors )
          => /\ singletons' = singletons
             /\ actions' = actions
             /\ hist'.starts = hist.starts
             /\ hist'.composes = hist.composes
             /\ hist'.startHandlers = hist.startHandlers ]_vars

\* C's resolution failed on the action pre-check while s1 and a1 were live
C4_Witness ==
    /\ hist.last.kind = "start"
    /\ hist.last.name = "C"
    /\ hist.last.error = "not-included"
    /\ singletons["s1"].started
    /\ ~singletons["s2"].started
    /\ actions["a1"].initializedFn.type = "function"

\* C5: with startService calls only, in any interleaving, no singleton's start
\* routine is invoked twice, and when a call that did the start resolves, the
\* start routine of each singleton of its service was invoked exactly once.
C5_SingletonStartedOnce ==
    /\ \A s \in SingletonNames : hist.starts[s] <= 1
    /\ ( /\ hist.last.kind = "start"
         /\ hist.last.outcome = "resolved"
         /\ ~hist.last.noop )
       => \A s \in Resolved_singletons(hist.last.name) : hist.starts[s] = 1

\* B resolved while the call for A, which shares s1, is still suspended
C5_Witness ==
    /\ hist.last = [kind |-> "start", name |-> "B", outcome |-> "resolved",
                    error |-> "", noop |-> FALSE]
    /\ \E c \in CallIds : calls[c].kind = "start" /\ calls[c].name = "A"
                          /\ calls[c].pc = "startHandler"
    /\ hist.starts["s1"] = 1

\* C6: with calls made one after the other and all succeeding, once
\* stopService(A) has completed each singleton of A's resolved list is started
\* if and only if another running service has it in its resolved list.
C6_StopKeepsShared ==
    ( /\ Quiescent
      /\ hist.last.kind = "stop"
      /\ hist.last.outcome = "resolved"
      /\ ~hist.last.noop )
    => \A s \in Resolved_singletons(hist.last.name) :
           singletons[s].started <=> NeededByOther(hist.last.name, s)

\* A and B were started, A was stopped (s2 torn down, s1 kept), then B
C6_Witness ==
    /\ Quiescent
    /\ hist.last = [kind |-> "stop", name |-> "B", outcome |-> "resolved",
                    error |-> "", noop |-> FALSE]
    /\ hist.stopHandlers["A"] = 1
    /\ hist.stops["s2"] = 1
    /\ hist.stops["s1"] = 1
    /\ ~singletons["s1"].started
    /\ ~services["A"].isRunning

\* the service of the call that takes this step
Actor(c) == IF calls[c].pc = "idle" THEN calls'[c].name ELSE calls[c].name

\* C7: no singleton's stop routine is invoked, and no started flag cleared,
\* while another running service lists the singleton in its resolved list.
C7_NoTeardownWhileNeeded ==
    [][ \A c \in CallIds : \A s \in SingletonNames :
          ( /\ calls'[c] # calls[c]
            /\ \/ hist'.stops[s] > hist.stops[s]
               \/ singletons[s].started /\ ~singletons'[s].started )
          => ~NeededByOther(Actor(c), s) ]_vars

\* C8: when a startService call rejects, its service is not running.
C8_RejectedStartNotRunning ==
    [][ \A c \in CallIds :
          ( /\ Settles(c)
            /\ hist'.last.kind = "start"
            /\ hist'.last.outcome = "rejected" )
          => ~services'[hist'.last.name].isRunning ]_vars

\* C9: startService on a running service changes nothing and invokes nothing,
\* so a service's start handler is invoked at most once per transition from
\* stopped to running.
C9_StartIdempotent ==
    /\ [][ \A c \in CallIds : \A name \in ServiceNames :
             (StartService(c, name) /\ services[name].isRunning)
             => /\ UNCHANGED <<singletons, actions, services>>
                /\ hist' = [hist EXCEPT !.last =
                       [kind |-> "start", name |-> name, outcome |-> "resolved",
                        error |-> "", noop |-> TRUE]]
                /\ Settled(c)' ]_vars
    /\ [](\A name \in ServiceNames :
             hist.startHandlers[name] <= hist.transitions[name])

\* a second startService('A') returned while the first is still suspended
C9_Witness ==
    /\ hist.last = [kind |-> "start", name |-> "A", outcome |-> "resolved",
                    error |-> "", noop |-> TRUE]
    /\ \E c \in CallIds : calls[c].kind = "start" /\ calls[c].name = "A"
                          /\ calls[c].pc = "singleton.start"
    /\ hist.startHandlers["A"] = 0

\* C10: stopService on a service that is not running invokes no stop handler and
\* no singleton stop routine and leaves all running and started flags unchanged.
C10_StopIdempotent ==
    [][ \A c \in CallIds : \A name \in ServiceNames :
          (StopService(c, name) /\ ~services[name].isRunning)
          => /\ UNCHANGED <<singletons, actions, services>>
             /\ hist'.stopHandlers = hist.stopHandlers
             /\ hist'.stops = hist.stops
             /\ Settled(c)' ]_vars

\* stopService('A') returned at once while B runs on started singletons
C10_Witness ==
    /\ hist.last = [kind |-> "stop", name |-> "A", outcome |-> "resolved",
                    error |-> "", noop |-> TRUE]
    /\ services["B"].isRunning
    /\ singletons["s1"].started
    /\ hist.stopHandlers["A"] = 0

(***************************************************************************)
(* Vocabulary of the injection and ordering claims.                        *)
(***************************************************************************)
\* the most recent run of s's start routine has returned, and what it returned
\* is the cached instance of the started singleton s
Instantiated(sg, h, s) ==
    /\ sg[s].started
    /\ h.starts[s] > 0
    /\ sg[s].instance = h.starts[s]

\* call c hands a dependency bag to a start routine, a compose routine or a
\* start handler in this step
Injects(c) ==
    /\ calls'[c] # calls[c]
    /\ calls'[c].pc \in {"singleton.start", "action.fn", "startHandler"}

\* C11: every singleton value startService injects into a start routine, a
\* compose routine or a start handler is the instance returned by the completed
\* run of that singleton's start routine for its current lifetime.
C11_InjectedInstances ==
    [][ \A c \in CallIds :
          Injects(c) =>
              \A s \in DOMAIN calls'[c].bag.singletons :
                  /\ Instantiated(singletons', hist', s)
                  /\ calls'[c].bag.singletons[s] = singletons'[s].instance ]_vars

\* C12: the bag passed to a service's start handler has, under singletons,
\* exactly the singleton names the service declared and, under actions, exactly
\* the action names it declared, each mapped to the instance or the composed
\* function of the component of that name.
C12_HandlerBagExact ==
    \A c \in CallIds :
        calls[c].pc = "startHandler" =>
            LET service == registry.services[calls[c].name]
                bag == calls[c].bag
            IN /\ DOMAIN bag.singletons = Range(service.singletons)
               /\ DOMAIN bag.actions = Range(service.actions)
               /\ \A s \in DOMAIN bag.singletons :
                      bag.singletons[s] = singletons[s].instance
               /\ \A a \in DOMAIN bag.actions :
                      bag.actions[a] = actions[a].initializedFn

\* C13: once an action's compose routine has returned a value that is not a
\* function, no startService call whose resolved action list contains that
\* action gets as far as its start handler: what is cached for every action
\* of the list of a call that reaches the handler is a function.
C13_NonFunctionAlwaysFails ==
    \A c \in CallIds :
        calls[c].pc = "startHandler" =>
            \A a \in Range(services[calls[c].name].dependencies.actions) :
                actions[a].initializedFn.type = "function"

(***************************************************************************)
(* The singleton pre-check of sortActions.                                 *)
(***************************************************************************)
\* the error names a reachable action and exactly the singletons it requires
\* that are not among the resolved singletons
NamesTheMissing ==
    /\ output.status = "not-included"
    /\ Len(output.who) = 1
    /\ output.who[1] \in Reach(input.req, input.roots)
    /\ output.chain # <<>>
    /\ Range(output.chain) =
           Range(input.asing[output.who[1]]) \ Range(input.singletons)

\* C14 as stated: resolution fails with the error naming the action and the
\* missing singletons whenever a reachable action requires a singleton that
\* is not in the resolved singleton list, and succeeds otherwise (read: when
\* nothing else, such as a circular dependency, makes it fail).
C14_PrecheckDecides ==
    output.by = "sortActions" =>
        /\ ~AllIncluded => NamesTheMissing
        /\ (AllIncluded /\ ~CycleReachable(input.req, input.roots))
               => output.status = "ok"

\* C14 amended: a circular dependency among the reachable actions is reported
\* first; without one, resolution fails with the error naming the action and
\* the missing singletons exactly when a reachable action requires a singleton
\* that is not in the resolved singleton list, and succeeds otherwise.
C14_PrecheckAfterCycles ==
    output.by = "sortActions" =>
        IF CycleReachable(input.req, input.roots) THEN output.status = "cycle"
        ELSE IF AllIncluded THEN output.status = "ok"
        ELSE NamesTheMissing

\* the action that lacks its singleton is no root but required by a root
C14_Witness ==
    /\ output.by = "sortActions"
    /\ output.status = "not-included"
    /\ output.who = <<"n2">>
    /\ output.chain = <<"x1">>
    /\ "n2" \notin Range(input.roots)
    /\ Len(input.roots) = 2

(***************************************************************************)
(* mockAction(name, overrides).  The registry of its tests: the singleton  *)
(* s1 whose start routine returns input.s1, the plugin p1 whose start      *)
(* routine returns p => p, the action doIt composing () => input.doIt, and *)
(* the action doThat that requires some of them and composes the function  *)
(* returning the sum of what it was given plus input.add.  A composed      *)
(* function is modelled by the number it returns.                          *)
(***************************************************************************)
MaxValue == 5

Values == 1..MaxValue

MockActionNames == {"doIt", "doThat"}

\* the dependencies an action of the tests declares
MockDefinitions(in) ==
    [ sreq |-> [s \in {"s1"} |-> <<>>],
      areq |-> ("doIt" :> <<>>) @@ ("doThat" :> in.actions),
      asing |-> ("doIt" :> <<>>) @@ ("doThat" :> in.singletons),
      aplug |-> ("doIt" :> <<>>) @@ ("doThat" :> in.plugins),
      add |-> ("doIt" :> in.doIt) @@ ("doThat" :> in.add),
      start |-> [s \in {"s1"} |-> in.s1] ]

RECURSIVE sum(_)
sum(arr) == IF arr = <<>> THEN 0 ELSE Head(arr) + sum(Tail(arr))

\* fn({actions, singletons, plugins})(): what the composed function returns
composed(defs, name, bag) ==
    sum([i \in DOMAIN defs.areq[name] |-> bag.actions[defs.areq[name][i]]])
    + sum([i \in DOMAIN defs.asing[name] |-> bag.singletons[defs.asing[name][i]]])
    + sum([i \in DOMAIN defs.aplug[name] |-> bag.plugins[defs.aplug[name][i].name]])
    + defs.add[name]

\* the start path run on a private cache: the singletons of `order` started,
\* each being given the instances of the singletons it requires
RECURSIVE mockSingletons(_, _, _, _)
mockSingletons(defs, order, i, cache) ==
    IF i > Len(order) THEN cache
    ELSE mockSingletons(defs, order, i + 1,
                        (order[i] :> defs.start[order[i]]) @@ cache)

\* ... and the actions of `order` composed, each from the cached functions and
\* instances it requires
RECURSIVE mockActions(_, _, _, _, _)
mockActions(defs, order, i, instances, cache) ==
    IF i > Len(order) THEN cache
    ELSE mockActions(defs, order, i + 1, instances,
             (order[i] :> composed(defs, order[i],
                              [actions |-> cache, singletons |-> instances,
                               plugins |-> [r \in Range(defs.aplug[order[i]]) |->
                                               r.param]]))
             @@ cache)

\* faulty variant: no dependency counts as overridden
overridden_never(overrides, d) == FALSE

\* the caller gave a value for dependency d
overridden(overrides, d) == d \in DOMAIN overrides

\* the value for each name of arr: the caller's where given, else the real one
mockBag(arr, overrides, real) ==
    [d \in Range(arr) |-> IF overridden(overrides, d) THEN overrides[d] ELSE real[d]]

\* the dependencies of arr that have to be really started or composed
notOverridden(arr, overrides) ==
    SelectSeq(arr, LAMBDA d : ~overridden(overrides, d))

mockAction(in) ==
    LET defs == MockDefinitions(in)
        name == in.name
        ss == sortSingletons(defs.sreq,
                             notOverridden(defs.asing[name], in.overrides.singletons))
        sa == sortActions(defs.areq, [a \in MockActionNames |-> <<>>],
                          notOverridden(defs.areq[name], in.overrides.actions),
                          ss.order)
        instances == mockSingletons(defs, ss.order, 1, <<>>)
        functions == mockActions(defs, sa.order, 1, instances, <<>>)
        plugins == [q \in {r.name : r \in Range(defs.aplug[name])} |->
                       (CHOOSE r \in Range(defs.aplug[name]) : r.name = q).param]
        bag == [actions |-> mockBag(defs.areq[name], in.overrides.actions, functions),
                singletons |-> mockBag(defs.asing[name], in.overrides.singletons,
                                       instances),
                plugins |-> mockBag([i \in DOMAIN defs.aplug[name] |->
                                        defs.aplug[name][i].name],
                                    in.overrides.plugins, plugins)]
    IN IF name \notin MockActionNames
       THEN [status |-> "rejected", error |-> "Unknown action", returns |-> 0]
       ELSE IF ss.status # "ok" \/ sa.status # "ok"
       THEN [status |-> "rejected", error |-> "resolution", returns |-> 0]
       ELSE [status |-> "resolved", error |-> "",
             returns |-> composed(defs, name, bag)]

\* an override map: nothing, or a value for the one name
Overrides(name) == {<<>>} \cup {(name :> v) : v \in Values}

MockInit ==
    /\ input \in [ name : MockActionNames \cup {"a"},
                   actions : {<<>>, <<"doIt">>},
                   singletons : {<<>>, <<"s1">>},
                   plugins : {<<>>, <<[name |-> "p1", param |-> MaxValue]>>},
                   add : 1..2,
                   doIt : Values,
                   s1 : Values,
                   overrides : [ actions : Overrides("doIt"),
                                 singletons : Overrides("s1"),
                                 plugins : {<<>>, ("p1" :> 2 * MaxValue)} ] ]
    /\ output = NoOutput
    /\ registry = EmptyRegistry
    /\ singletons = <<>>
    /\ actions = <<>>
    /\ services = <<>>
    /\ calls = <<>>
    /\ hist = <<>>

\* await broker.mockAction(input.name, input.overrides), and the result called
MockActionCall ==
    /\ output.by = "none"
    /\ output' = [by |-> "mockAction"] @@ mockAction(input)
    /\ UNCHANGED <<input, brokerVars>>

MockNext == MockActionCall

MockSpec == MockInit /\ [][MockNext]_vars

\* what the caller gave for d, else what d really is
Given(overrides, d, real) == IF d \in DOMAIN overrides THEN overrides[d] ELSE real

Composed(ac, a) == ac[a].initializedFn.type = "function"

\* C16: a call invokes a singleton's start routine only after the start
\* routines of all singletons it transitively requires have completed, an
\* action's compose routine only after all singletons of the call are started
\* and all actions it transitively requires are composed, and the start
\* handler only after all of these.
C16_StartOrder ==
    [][ \A c \in CallIds :
          (calls'[c] # calls[c] /\ Actor(c) \in ServiceNames) =>
              LET name == Actor(c)
                  resolved == services'[name].dependencies
                  allStarted == \A s \in Range(resolved.singletons) :
                                    Instantiated(singletons', hist', s)
              IN /\ \A s \in SingletonNames :
                        hist'.starts[s] > hist.starts[s] =>
                            \A d \in TransDeps(registry.sreq, s) :
                                Instantiated(singletons', hist', d)
                 /\ \A a \in ActionNames :
                        hist'.composes[a] > hist.composes[a] =>
                            /\ allStarted
                            /\ \A d \in TransDeps(registry.areq, a) :
                                   Composed(actions', d)
                 /\ hist'.startHandlers[name] > hist.startHandlers[name] =>
                        /\ allStarted
                        /\ \A a \in Range(resolved.actions) :
                               Composed(actions', a) ]_vars

\* call c is a stopService call past its guard that has not returned
Stopping(c) == calls[c].pc \in {"stopHandler", "singleton.stop"}

\* C17: a stopService call on a running service invokes a singleton's stop
\* routine only when the service's stop handler, if there is one, has
\* completed; the service is marked not-running only by a call whose stop
\* routines have all completed; and while a call is at its stop handler or its
\* stop routines the service stays running.
C17_StopOrder ==
    /\ [][ \A c \in CallIds :
             (calls'[c] # calls[c] /\ Actor(c) \in ServiceNames) =>
                 LET name == Actor(c)
                 IN /\ (\E s \in SingletonNames : hist'.stops[s] > hist.stops[s])
                          => \/ calls[c].pc \in {"stopHandler", "singleton.stop"}
                             \/ ~registry.services[name].stop
                    /\ (services[name].isRunning /\ ~services'[name].isRunning)
                          => /\ hist'.stops = hist.stops
                             /\ \/ calls[c].pc = "singleton.stop"
                                      /\ calls[c].idx = Len(calls[c].names)
                                \/ singletonsToStop(Now(c), name) = <<>> ]_vars
    /\ [](\A c \in CallIds : Stopping(c) => services[calls[c].name].isRunning)

\* a start routine or a compose routine of call c fails in this step
RoutineFails(c) ==
    \/ SingletonStartThrew(c)
    \/ ActionFnThrew(c)
    \/ \E type \in ReturnTypes \ {"function"} : ActionFnReturned(c, type)

\* C18: when a singleton start routine or an action compose routine fails
\* during a startService call, the call rejects, it starts and composes nothing
\* more, its start handler is not invoked, and every singleton whose start
\* routine had completed stays started with its instance.
C18_NoRollback ==
    [][ \A c \in CallIds :
          RoutineFails(c) =>
              /\ Settled(c)'
              /\ hist'.last.kind = "start"
              /\ hist'.last.outcome = "rejected"
              /\ hist'.starts = hist.starts
              /\ hist'.composes = hist.composes
              /\ hist'.startHandlers = hist.startHandlers
              /\ \A s \in SingletonNames :
                     Instantiated(singletons, hist, s) =>
                         singletons'[s] = singletons[s] ]_vars

\* the compose routine of A's local action threw after s1, s2 and a1 were done
C18_Witness ==
    /\ hist.last = [kind |-> "start", name |-> "A", outcome |-> "rejected",
                    error |-> "action-fn", noop |-> FALSE]
    /\ Instantiated(singletons, hist, "s1")
    /\ Instantiated(singletons, hist, "s2")
    /\ Composed(actions, "a1")
    /\ hist.composes["A#a1"] = 1
    /\ hist.startHandlers["A"] = 0

(***************************************************************************)
(* Calls on the services that resolve, every start, compose and stop       *)
(* routine and every handler returning: startService is called when no     *)
(* call is in flight, stopService when no startService call is, so that    *)
(* the calls that overlap are stopService calls.                           *)
(***************************************************************************)
MaxOkCalls == 4

OkCalls == 1..MaxOkCalls

OkInit == BrokerInit(OkCalls) /\ registry = Registry(3)

\* no startService call is suspended
NoStartInFlight == \A c \in CallIds : InFlight(c) => calls[c].kind # "start"

OverlappingStopService(c, name) == NoStartInFlight /\ StopService(c, name)

OkNext ==
    \/ \E c \in OkCalls, name \in Resolvable : SeqStartService(c, name)
    \/ \E c \in OkCalls, name \in Resolvable : OverlappingStopService(c, name)
    \/ \E c \in OkCalls : SingletonStartReturned(c)
    \/ \E c \in OkCalls : StartSingletonsReturned(c)
    \/ \E c \in OkCalls : ActionFnReturned(c, "function")
    \/ \E c \in OkCalls : StartActionsReturned(c)
    \/ \E c \in OkCalls : StartLocalActionsReturned(c)
    \/ \E c \in OkCalls : StartHandlerReturned(c)
    \/ \E c \in OkCalls : StopHandlerReturned(c)
    \/ \E c \in OkCalls : SingletonStopReturned(c)

OkSpec == OkInit /\ [][OkNext]_vars

\* C19: no action's compose routine is invoked more than once, whatever the
\* interleaving of the startService calls.
C19_ComposedOnce ==
    \A a \in ActionNames : hist.composes[a] <= 1

\* C20: once no service is running and no call is in flight, no singleton has
\* its started flag set.
C20_AllStoppedNothingStarted ==
    (Quiescent /\ \A n \in ServiceNames : ~services[n].isRunning)
        => \A s \in SingletonNames : ~singletons[s].started

(***************************************************************************)
(* Teardown and restart.                                                   *)
(***************************************************************************)
\* how often service n went from stopped to running, if it lists singleton s
CyclesListing(n, s) ==
    IF s \in Resolved_singletons(n) THEN hist.transitions[n] ELSE 0

\* C21: a service's stop handler is invoked at most once for each time the
\* service went from stopped to running, and a singleton's stop routine at
\* most once for each such cycle of a service that lists it.
C21_StoppedOncePerCycle ==
    /\ \A n \in ServiceNames : hist.stopHandlers[n] <= hist.transitions[n]
    /\ \A s \in SingletonNames :
           hist.stops[s] <= CyclesListing("A", s) + CyclesListing("B", s)
                            + CyclesListing("C", s)

\* C22: every composed action in the bag of a start handler was composed with
\* the instance each singleton it requires has now.
C22_ActionsUseCurrentInstance ==
    \A c \in CallIds :
        calls[c].pc = "startHandler" =>
            \A a \in DOMAIN calls[c].bag.actions :
                LET fn == calls[c].bag.actions[a]
                IN \A s \in DOMAIN fn.singletons :
                       fn.singletons[s] = singletons[s].instance

\* C23: a stopService call invokes the stop routines one per step, in the
\* order of the service's resolved singleton list, so that the stop routine
\* of a singleton is invoked after those of the torn-down singletons it
\* transitively requires.
C23_StopInResolvedOrder ==
    [][ \A c \in CallIds : \A s \in SingletonNames :
          (calls'[c] # calls[c] /\ hist'.stops[s] > hist.stops[s]) =>
              LET names == calls'[c].names
                  idx == calls'[c].idx
                  resolved == services'[calls'[c].name].dependencies.singletons
              IN /\ hist'.stops = [hist.stops EXCEPT ![s] = @ + 1]
                 /\ names[idx] = s
                 /\ calls[c].pc = "singleton.stop" => idx = calls[c].idx + 1
                 /\ calls[c].pc # "singleton.stop" => idx = 1
                 /\ \A i, j \in DOMAIN names :
                        i < j => Pos(resolved, names[i]) < Pos(resolved, names[j])
                 /\ \A d \in TransDeps(registry.sreq, s) \cap Range(names) :
                        Pos(names, d) < idx ]_vars

\* A's call has had s1's stop routine return and awaits that of s2, which
\* requires s1
C23_Witness ==
    \E c \in CallIds :
        /\ calls[c].kind = "stop"
        /\ calls[c].name = "A"
        /\ calls[c].pc = "singleton.stop"
        /\ calls[c].names = <<"s1", "s2">>
        /\ calls[c].idx = 2
        /\ hist.stops["s1"] = 1
        /\ hist.stops["s2"] = 1

====
